---- MODULE Spec2Model ----
(***************************************************************************)
(* The Option type of fpbookclub/error_handling/option.ts and the answer   *)
(* code of site/src/chapter_4.md (Option combinators, map2, sequence,      *)
(* traverse).                                                              *)
(*                                                                         *)
(* Every call is modelled by its effect: how it ended (a return or a       *)
(* throw), the value it returned, and the log of the caller-supplied       *)
(* callbacks it invoked, in order.  A callback is a TLA+ function from its *)
(* argument to the effect of calling it; a thunk is a callback whose only  *)
(* argument is Unit.                                                       *)
(***************************************************************************)
EXTENDS Integers, Sequences, FiniteSets, TLC

\* Payload values are 0..MaxVal; lists hold at most MaxLen elements; a chain of
\* method calls has at most MaxChain stages; a generator is stepped at most
\* MaxCalls times.
MaxVal == 2
MaxLen == 3
MaxChain == 3
MaxCalls == 3

Values == 0..MaxVal
Unit == "unit"

\* The payloads of a Left: two error codes, told apart from the values.
Errors == {-1, -2}

----------------------------------------------------------------------------
\* Effects of a call.

Return(v, log) == [kind |-> "return", val |-> v, log |-> log]
Throw(msg) == [kind |-> "throw", val |-> msg, log |-> <<>>]

\* The effect r of a call made after the callbacks in log were invoked.
After(log, r) == [r EXCEPT !.log = log \o @]

\* A caller-supplied callback: calling it returns table[a] and logs label.
Callback(label, table) == [a \in DOMAIN table |-> Return(table[a], <<label>>)]

\* A caller-supplied thunk returning v.
Thunk(label, v) == [u \in {Unit} |-> Return(v, <<label>>)]

----------------------------------------------------------------------------
\* option.ts: the data constructors.

Some(value) == [tag |-> "some", value |-> value]
None == [tag |-> "none"]
NONE == None

\* The values a `this: Option<A>` can hand to a callback.
Held(this) == IF this.tag = "some" THEN {this.value} ELSE {}

----------------------------------------------------------------------------
\* option.ts: the methods of OptionBase.

filter(this, p) == Throw("Not implemented")

flatMap(this, f) == Throw("Not implemented")

\* A getOrElse that evaluates its default before looking at the receiver.
getOrElse_eager(this, onEmpty) ==
  LET d == onEmpty[Unit]
  IN IF this.tag = "some" THEN Return(this.value, d.log) ELSE d

getOrElse(this, onEmpty) ==
  IF this.tag = "some" THEN Return(this.value, <<>>)
  ELSE onEmpty[Unit]

\* A map that rewraps the value without applying f.
map_unapplied(this, f) ==
  IF this.tag = "none" THEN Return(NONE, <<>>)
  ELSE Return(Some(this.value), <<>>)

\* A map that tests the value for truthiness and so takes Some(0) for None.
map_falsy(this, f) ==
  IF this.tag = "none" \/ this.value = 0 THEN Return(NONE, <<>>)
  ELSE LET r == f[this.value]
       IN IF r.kind = "throw" THEN r ELSE Return(Some(r.val), r.log)

map(this, f) ==
  IF this.tag = "none" THEN Return(NONE, <<>>)
  ELSE LET r == f[this.value]
       IN IF r.kind = "throw" THEN r ELSE Return(Some(r.val), r.log)

orElse(this, ou) == Throw("Not implemented")

----------------------------------------------------------------------------
\* chapter_4.md: the smart constructors and the answer to exercise 4.1.

none == None
some(a) == Some(a)

ans_getOrElse(this, onEmpty) ==
  IF this.tag = "none" THEN onEmpty[Unit]
  ELSE Return(this.value, <<>>)

ans_map(this, f) ==
  IF this.tag = "none" THEN Return(none, <<>>)
  ELSE LET r == f[this.value]
       IN IF r.kind = "throw" THEN r ELSE Return(some(r.val), r.log)

\* this.map(f).getOrElse(() => none())
ans_flatMap(this, f) ==
  LET m == ans_map(this, f)
  IN IF m.kind = "throw" THEN m
     ELSE After(m.log, ans_getOrElse(m.val, [u \in {Unit} |-> Return(none, <<>>)]))

\* this.flatMap(a => p(a) ? some(a) : none())
ans_filter(this, p) ==
  ans_flatMap(this,
    [a \in DOMAIN p |->
       LET r == p[a]
       IN IF r.kind = "throw" THEN r
          ELSE Return(IF r.val THEN some(a) ELSE none, r.log)])

\* this.map(a => some(a)).getOrElse(() => ou())
ans_orElse(this, ou) ==
  LET m == ans_map(this, [a \in Held(this) |-> Return(some(a), <<>>)])
  IN IF m.kind = "throw" THEN m
     ELSE After(m.log, ans_getOrElse(m.val, [u \in {Unit} |-> ou[Unit]]))

----------------------------------------------------------------------------
\* The List of chapter 3, which chapter 4 uses: a list is a sequence.

Nil == <<>>
List == <<>>
Cons(head, tail) == <<head>> \o tail

\* foldRight(Cons(h, t), z, f) = f(h, foldRight(t, z, f)); foldRight(Nil, z, f) = z
RECURSIVE foldRight(_, _, _)
foldRight(l, z, f) ==
  IF l = Nil THEN Return(z, <<>>)
  ELSE LET r == foldRight(Tail(l), z, f)
       IN IF r.kind = "throw" THEN r
          ELSE After(r.log, f[<<Head(l), r.val>>])

\* The lists a fold over at most MaxLen elements builds, bare and wrapped.
Lists == UNION {[1..n -> Values] : n \in 0..MaxLen}
OptLists == {None} \cup {Some(l) : l \in Lists}

----------------------------------------------------------------------------
\* chapter_4.md: the answers to exercises 4.3, 4.4 and 4.5.

\* A map2 that hands f its arguments in the wrong order.
map2_swapped(oa, ob, f) ==
  ans_flatMap(oa,
    [a \in Held(oa) |-> ans_map(ob, [b \in Held(ob) |-> f[<<b, a>>]])])

\* oa.flatMap(a => ob.map(b => f(a, b)))
map2(oa, ob, f) ==
  ans_flatMap(oa,
    [a \in Held(oa) |-> ans_map(ob, [b \in Held(ob) |-> f[<<a, b>>]])])

\* (la, a) => new Cons(a, la)
consOnto == [p \in Lists \X Values |-> Return(Cons(p[2], p[1]), <<>>)]

\* A sequence that adds each value at the end of the list built so far.
sequence_appending(ls) ==
  IF ls = Nil THEN Return(none, <<>>)
  ELSE foldRight(ls, some(List),
         [p \in {ls[i] : i \in DOMAIN ls} \X OptLists |->
            map2(p[2], p[1],
                 [q \in Lists \X Values |-> Return(q[1] \o <<q[2]>>, <<>>)])])

\* foldRight(ls, some(List()), (oa, ol) => map2(ol, oa, (la, a) => new Cons(a, la)))
sequence(ls) ==
  IF ls = Nil THEN Return(none, <<>>)
  ELSE foldRight(ls, some(List),
         [p \in {ls[i] : i \in DOMAIN ls} \X OptLists |-> map2(p[2], p[1], consOnto)])

\* A traverse that leaves out the elements f turns into None.
traverse_skipping(ls, f) ==
  IF ls = Nil THEN Return(none, <<>>)
  ELSE foldRight(ls, some(List),
         [p \in (DOMAIN f) \X OptLists |->
            LET fa == f[p[1]]
            IN IF fa.kind = "throw" THEN fa
               ELSE IF fa.val = none THEN Return(p[2], fa.log)
               ELSE After(fa.log, map2(p[2], fa.val, consOnto))])

\* A traverse without the test for the empty list.
traverse_unguarded(ls, f) ==
  foldRight(ls, some(List),
    [p \in (DOMAIN f) \X OptLists |->
       LET fa == f[p[1]]
       IN IF fa.kind = "throw" THEN fa
          ELSE After(fa.log, map2(p[2], fa.val, consOnto))])

\* A traverse that adds each value at the end of the list built so far.
traverse_appending(ls, f) ==
  IF ls = Nil THEN Return(none, <<>>)
  ELSE foldRight(ls, some(List),
         [p \in (DOMAIN f) \X OptLists |->
            LET fa == f[p[1]]
            IN IF fa.kind = "throw" THEN fa
               ELSE After(fa.log,
                      map2(p[2], fa.val,
                           [q \in Lists \X Values |-> Return(q[1] \o <<q[2]>>, <<>>)]))])

\* foldRight(ls, some(List()), (a, ol) => map2(ol, f(a), (la, b) => new Cons(b, la)))
traverse(ls, f) ==
  IF ls = Nil THEN Return(none, <<>>)
  ELSE foldRight(ls, some(List),
         [p \in (DOMAIN f) \X OptLists |->
            LET fa == f[p[1]]
            IN IF fa.kind = "throw" THEN fa
               ELSE After(fa.log, map2(p[2], fa.val, consOnto))])

\* traverse(ls, oa => oa)
sequence_via_traverse(ls) ==
  traverse(ls, [oa \in {ls[i] : i \in DOMAIN ls} |-> Return(oa, <<>>)])

\* chapter 3's map over a List: the list of the f(x), in the order of l.
RECURSIVE List_map(_, _)
List_map(l, f) ==
  IF l = Nil THEN Return(Nil, <<>>)
  ELSE LET h == f[Head(l)]
       IN IF h.kind = "throw" THEN h
          ELSE LET t == List_map(Tail(l), f)
               IN IF t.kind = "throw" THEN After(h.log, t)
                  ELSE Return(Cons(h.val, t.val), h.log \o t.log)

\* sequence(map(a, f)), what parseInts does with parseIntOpt for f
sequence_map(a, f) ==
  LET m == List_map(a, f)
  IN IF m.kind = "throw" THEN m ELSE After(m.log, sequence(m.val))

----------------------------------------------------------------------------
\* chapter_4.md: the Either data type and the answers to exercises 4.6, 4.7.

Left(value) == [tag |-> "left", value |-> value]
Right(value) == [tag |-> "right", value |-> value]
left(val) == Left(val)
right(val) == Right(val)

\* The values a `this: Either<E, A>` can hand to a callback.
HeldRight(this) == IF this.tag = "right" THEN {this.value} ELSE {}

either_flatMap(this, f) ==
  IF this.tag = "left" THEN Return(left(this.value), <<>>)
  ELSE f[this.value]

\* A map that rewraps the value without applying f.
either_map_unapplied(this, f) ==
  either_flatMap(this, [a \in DOMAIN f |-> Return(right(a), <<>>)])

\* this.flatMap(a => right(f(a)))
either_map(this, f) ==
  either_flatMap(this,
    [a \in DOMAIN f |->
       LET r == f[a]
       IN IF r.kind = "throw" THEN r ELSE Return(right(r.val), r.log)])

\* An orElse that evaluates its alternative before looking at the receiver.
either_orElse_eager(this, b) ==
  LET d == b[Unit]
  IN IF this.tag = "left" THEN d ELSE Return(this, d.log)

either_orElse(this, b) ==
  IF this.tag = "left" THEN b[Unit]
  ELSE Return(this, <<>>)

\* A map2 that looks at its second argument first.
either_map2_secondFirst(e1, e2, f) ==
  either_flatMap(e2,
    [b \in HeldRight(e2) |->
       either_map(e1, [a \in HeldRight(e1) |-> f[<<a, b>>]])])

\* e1.flatMap(a => e2.map(b => f(a, b)))
either_map2(e1, e2, f) ==
  either_flatMap(e1,
    [a \in HeldRight(e1) |->
       either_map(e2, [b \in HeldRight(e2) |-> f[<<a, b>>]])])

\* (b, lb) => cons(b, lb)
consEither == [p \in Values \X Lists |-> Return(Cons(p[1], p[2]), <<>>)]

\* aa.foldRight(right(List()), (a, elb) => map2(f(a), elb, (b, lb) => cons(b, lb)))
\* The fold is written out: of Nil it is the seed, and of Cons(a, t) it is the
\* step applied to a and to elb, the fold of t.
RECURSIVE either_traverse(_, _)

\* A traverse whose step hands map2 the accumulator first, as Option's does.
either_traverse_accFirst(aa, f) ==
  IF aa = Nil THEN Return(right(List), <<>>)
  ELSE LET elb == either_traverse(Tail(aa), f)
       IN IF elb.kind = "throw" THEN elb
          ELSE LET fa == f[Head(aa)]
               IN IF fa.kind = "throw" THEN After(elb.log, fa)
                  ELSE After(elb.log \o fa.log,
                             either_map2(elb.val, fa.val,
                               [p \in Lists \X Values |->
                                  Return(Cons(p[2], p[1]), <<>>)]))

\* A traverse that refuses the empty list, as Option's does.
either_traverse_guarded(aa, f) ==
  IF aa = Nil THEN Return(left(-1), <<>>)
  ELSE LET elb == IF Tail(aa) = Nil THEN Return(right(List), <<>>)
                  ELSE either_traverse(Tail(aa), f)
       IN IF elb.kind = "throw" THEN elb
          ELSE LET fa == f[Head(aa)]
               IN IF fa.kind = "throw" THEN After(elb.log, fa)
                  ELSE After(elb.log \o fa.log,
                             either_map2(fa.val, elb.val, consEither))

either_traverse(aa, f) ==
  IF aa = Nil THEN Return(right(List), <<>>)
  ELSE LET elb == either_traverse(Tail(aa), f)
       IN IF elb.kind = "throw" THEN elb
          ELSE LET fa == f[Head(aa)]
               IN IF fa.kind = "throw" THEN After(elb.log, fa)
                  ELSE After(elb.log \o fa.log,
                             either_map2(fa.val, elb.val, consEither))

\* traverse(le, ea => ea)
either_sequence(le) ==
  either_traverse(le, [ea \in {le[i] : i \in DOMAIN le} |-> Return(ea, <<>>)])

----------------------------------------------------------------------------
\* chapter_4.md: wrapping exception-based APIs.

\* An Error object, with the place that made it.
NewError(message, site) == [class |-> "Error", message |-> message, site |-> site]

\* What a thunk can throw: an Error, or any other value (a string, a number,
\* undefined).
Thrown ==
  {NewError(m, "thunk") : m \in {"boom", "bang"}}
    \cup {[class |-> "string", chars |-> "oops"]}
    \cup {[class |-> "number", num |-> n] : n \in Values}
    \cup {[class |-> "undefined"]}

\* A caller-supplied thunk that throws x.
ThrowingThunk(label, x) ==
  [u \in {Unit} |-> [kind |-> "throw", val |-> x, log |-> <<label>>]]

Digits == <<"0", "1", "2", "3", "4", "5", "6", "7", "8", "9">>

\* The message new Error(e) gets from a value e that is no Error: the string
\* itself, the digits of a number, and no message for undefined.
MessageOf(e) ==
  CASE e.class = "string" -> e.chars
    [] e.class = "number" -> Digits[e.num + 1]
    [] e.class = "undefined" -> ""

\* A Try that lets the fault through.
Try_uncaught(f) ==
  LET r == f[Unit]
  IN IF r.kind = "throw" THEN r ELSE Return(some(r.val), r.log)

\* Try for Option: try { return some(f()); } catch (e) { return none(); }
Try(f) ==
  LET r == f[Unit]
  IN IF r.kind = "throw" THEN Return(none, r.log)
     ELSE Return(some(r.val), r.log)

\* A Try that makes its new Error without the value that was thrown.
either_Try_bare(f) ==
  LET r == f[Unit]
  IN IF r.kind = "throw"
     THEN IF r.val.class = "Error" THEN Return(left(r.val), r.log)
          ELSE Return(left(NewError("", "Try")), r.log)
     ELSE Return(right(r.val), r.log)

\* Try for Either: the catch returns left(e) for an Error e, and
\* left(new Error(e)) for anything else.
either_Try(f) ==
  LET r == f[Unit]
  IN IF r.kind = "throw"
     THEN IF r.val.class = "Error" THEN Return(left(r.val), r.log)
          ELSE Return(left(NewError(MessageOf(r.val), "Try")), r.log)
     ELSE Return(right(r.val), r.log)

----------------------------------------------------------------------------
\* RNG.ts: bigint arithmetic.  A bigint is written in two's complement as
\* BigBytes bytes, the lowest first, the sign carried up to the highest: wide
\* enough to hold every value nextInt computes (a 64-bit seed times a 35-bit
\* multiplier) without wrapping.

BigBytes == 16

\* The bigint with the given low bytes, the lowest first, and zeros above.
Big(bytes) ==
  [k \in 1..BigBytes |-> IF k <= Len(bytes) THEN bytes[k] ELSE 0]

\* The bigint with the given low bytes and the sign of the last of them.
BigSigned(bytes) ==
  [k \in 1..BigBytes |->
     IF k <= Len(bytes) THEN bytes[k]
     ELSE IF bytes[Len(bytes)] >= 128 THEN 255 ELSE 0]

\* BigInt.asIntN(bits, x): the low bits of x read as a signed integer.
asIntN(bits, x) ==
  LET n == bits \div 8
  IN [k \in 1..BigBytes |->
        IF k <= n THEN x[k] ELSE IF x[n] >= 128 THEN 255 ELSE 0]

RECURSIVE AddFrom(_, _, _, _)
\* Bytes k and up of x + y, given the carry into byte k.
AddFrom(x, y, k, carry) ==
  IF k > BigBytes THEN <<>>
  ELSE <<(x[k] + y[k] + carry) % 256>>
         \o AddFrom(x, y, k + 1, (x[k] + y[k] + carry) \div 256)

\* x + y
BigAdd(x, y) == AddFrom(x, y, 1, 0)

RECURSIVE Column(_, _, _, _)
\* The sum of the byte products x[i] * y[k - i + 1] for i in 1..n, which all
\* weigh as byte k of x * y.
Column(x, y, k, n) ==
  IF n = 0 THEN 0 ELSE x[n] * y[k - n + 1] + Column(x, y, k, n - 1)

RECURSIVE MulFrom(_, _, _, _)
\* Bytes k and up of x * y, given the carry into byte k.
MulFrom(x, y, k, carry) ==
  IF k > BigBytes THEN <<>>
  ELSE <<(Column(x, y, k, k) + carry) % 256>>
         \o MulFrom(x, y, k + 1, (Column(x, y, k, k) + carry) \div 256)

\* x * y
BigMul(x, y) == MulFrom(x, y, 1, 0)

RECURSIVE AndByte(_, _)
\* The bits that bytes a and b both have.
AndByte(a, b) ==
  IF a = 0 \/ b = 0 THEN 0
  ELSE (a % 2) * (b % 2) + 2 * AndByte(a \div 2, b \div 2)

\* x & y
BigAnd(x, y) == [k \in 1..BigBytes |-> AndByte(x[k], y[k])]

\* x >> bits, the sign kept
BigShiftRight(x, bits) ==
  LET n == bits \div 8
  IN [k \in 1..BigBytes |->
        IF k + n <= BigBytes THEN x[k + n]
        ELSE IF x[BigBytes] >= 128 THEN 255 ELSE 0]

\* Number(x): the number x, which a double holds exactly for every x within
\* 2^53, written as hi * 2^24 + lo with 0 <= lo < 2^24.
Number(x) ==
  [hi |-> x[4] + 256 * x[5] + 65536 * x[6]
            + 16777216 * (IF x[7] >= 128 THEN x[7] - 256 ELSE x[7]),
   lo |-> x[1] + 256 * x[2] + 65536 * x[3]]

\* 0x5deece66dn, 0xbn, 0xffffffffffffn and 16n
Multiplier == Big(<<109, 230, 236, 222, 5>>)
Increment == Big(<<11>>)
Mask48 == Big(<<255, 255, 255, 255, 255, 255>>)
SeedShift == 16

----------------------------------------------------------------------------
\* RNG.ts: SimpleRNG.

\* constructor(seed): this.seed = BigInt.asIntN(64, seed)
SimpleRNG(seed) == [seed |-> asIntN(64, seed)]

\* A nextInt that keeps all 64 bits of the new seed.
nextInt_unmasked(this) ==
  LET newSeed == asIntN(64, BigAdd(BigMul(this.seed, Multiplier), Increment))
      nextRNG == SimpleRNG(newSeed)
      n == Number(asIntN(32, BigShiftRight(newSeed, SeedShift)))
  IN [val |-> <<n, nextRNG>>, this |-> this]

\* A nextInt that steps the receiver itself and returns it.
nextInt_inPlace(this) ==
  LET newSeed ==
        BigAnd(asIntN(64, BigAdd(BigMul(this.seed, Multiplier), Increment)),
               Mask48)
      nextRNG == SimpleRNG(newSeed)
      n == Number(asIntN(32, BigShiftRight(newSeed, SeedShift)))
  IN [val |-> <<n, nextRNG>>, this |-> nextRNG]

\* nextInt(): val is the pair returned, this is the receiver as the call
\* leaves it (seed is readonly and nextInt assigns nothing).
nextInt(this) ==
  LET newSeed ==
        BigAnd(asIntN(64, BigAdd(BigMul(this.seed, Multiplier), Increment)),
               Mask48)
      nextRNG == SimpleRNG(newSeed)
      n == Number(asIntN(32, BigShiftRight(newSeed, SeedShift)))
  IN [val |-> <<n, nextRNG>>, this |-> this]

----------------------------------------------------------------------------
\* The inputs the operations are applied to.

Options == {None} \cup {Some(v) : v \in Values}
Fns == [Values -> Values]
OptFns == [Values -> Options]
Preds == [Values -> BOOLEAN]

\* The second function of a composition: the rotations and the constants.
Fns_g ==
  {[v \in Values |-> (v + k) % (MaxVal + 1)] : k \in Values}
    \cup {[v \in Values |-> c] : c \in Values}

\* Functions of two arguments: a sum, an injective pairing, the projections.
add == [p \in Values \X Values |-> (p[1] + p[2]) % (MaxVal + 1)]
pair == [p \in Values \X Values |-> p[1] * (MaxVal + 1) + p[2]]
first == [p \in Values \X Values |-> p[1]]
second == [p \in Values \X Values |-> p[2]]
Fns2 == {add, pair, first, second}

\* The two-argument functions whose results are in Values again, so that a
\* further stage can take them.
Fns2_closed == {add, first, second}

\* The f of parseInts: an element is refused, or parsed to one end of Values.
ParseFns == [Values -> {None, Some(0), Some(MaxVal)}]

Eithers == {Left(e) : e \in Errors} \cup {Right(v) : v \in Values}
EitherFns == [Values -> Eithers]

\* The f of a traverse: each element fails for one reason or the other, or is
\* passed on, as it is or changed.
TraverseFns ==
  [Values -> {Left(e) : e \in Errors}
               \cup {Right(v) : v \in {0, MaxVal}}]

ValueLists == UNION {[1..n -> Values] : n \in 0..MaxLen}
EitherListsIn == UNION {[1..n -> Eithers] : n \in 0..MaxLen}
OptionLists == UNION {[1..n -> Options] : n \in 0..MaxLen}

\* The seeds a generator is made with: 0, 1, 42, -1, the two ends of the
\* 64-bit range, 2^48, and two seeds the constructor has to wrap, 2^63 and
\* 2^64 + 42.
Seeds ==
  { Big(<<0>>), Big(<<1>>), Big(<<42>>), BigSigned(<<255>>),
    BigSigned(<<0, 0, 0, 0, 0, 0, 0, 128>>),
    Big(<<255, 255, 255, 255, 255, 255, 255, 127>>),
    Big(<<0, 0, 0, 0, 0, 0, 1>>),
    Big(<<0, 0, 0, 0, 0, 0, 0, 128>>),
    Big(<<42, 0, 0, 0, 0, 0, 0, 0, 1>>) }

----------------------------------------------------------------------------
\* State: the call being made (op), its arguments, and its effect (out).
\* op = "init" between calls.

VARIABLES op, self, other, cb, alt, ls, out

vars == <<op, self, other, cb, alt, ls, out>>

NoCb == <<>>

Init ==
  /\ op = "init"
  /\ self = NONE
  /\ other = NONE
  /\ cb = NoCb
  /\ alt = NONE
  /\ ls = Nil
  /\ out = Return(NONE, <<>>)

\* option.ts: o.filter(p)
Filter ==
  /\ op = "init"
  /\ \E o \in Options, p \in Preds :
       /\ op' = "filter"
       /\ self' = o
       /\ cb' = p
       /\ alt' = NONE
       /\ out' = filter(o, Callback("p", p))
       /\ UNCHANGED <<other, ls>>

\* option.ts: o.flatMap(f)
FlatMap ==
  /\ op = "init"
  /\ \E o \in Options, f \in OptFns :
       /\ op' = "flatMap"
       /\ self' = o
       /\ cb' = f
       /\ alt' = NONE
       /\ out' = flatMap(o, Callback("f", f))
       /\ UNCHANGED <<other, ls>>

\* option.ts: o.getOrElse(() => v)
GetOrElse ==
  /\ op = "init"
  /\ \E o \in Options, v \in Values :
       /\ op' = "getOrElse"
       /\ self' = o
       /\ cb' = NoCb
       /\ alt' = v
       /\ out' = getOrElse(o, Thunk("onEmpty", v))
       /\ UNCHANGED <<other, ls>>

\* option.ts: o.map(f)
Map ==
  /\ op = "init"
  /\ \E o \in Options, f \in Fns :
       /\ op' = "map"
       /\ self' = o
       /\ cb' = f
       /\ alt' = NONE
       /\ out' = map(o, Callback("f", f))
       /\ UNCHANGED <<other, ls>>

\* option.ts: o.orElse(() => v)
OrElse ==
  /\ op = "init"
  /\ \E o \in Options, v \in Options :
       /\ op' = "orElse"
       /\ self' = o
       /\ cb' = NoCb
       /\ alt' = v
       /\ out' = orElse(o, Thunk("ou", v))
       /\ UNCHANGED <<other, ls>>

\* chapter_4.md: o.filter(p)
AnsFilter ==
  /\ op = "init"
  /\ \E o \in Options, p \in Preds :
       /\ op' = "ans_filter"
       /\ self' = o
       /\ cb' = p
       /\ alt' = NONE
       /\ out' = ans_filter(o, Callback("p", p))
       /\ UNCHANGED <<other, ls>>

\* chapter_4.md: o.flatMap(f)
AnsFlatMap ==
  /\ op = "init"
  /\ \E o \in Options, f \in OptFns :
       /\ op' = "ans_flatMap"
       /\ self' = o
       /\ cb' = f
       /\ alt' = NONE
       /\ out' = ans_flatMap(o, Callback("f", f))
       /\ UNCHANGED <<other, ls>>

\* chapter_4.md: o.getOrElse(() => v)
AnsGetOrElse ==
  /\ op = "init"
  /\ \E o \in Options, v \in Values :
       /\ op' = "ans_getOrElse"
       /\ self' = o
       /\ cb' = NoCb
       /\ alt' = v
       /\ out' = ans_getOrElse(o, Thunk("onEmpty", v))
       /\ UNCHANGED <<other, ls>>

\* chapter_4.md: o.map(f)
AnsMap ==
  /\ op = "init"
  /\ \E o \in Options, f \in Fns :
       /\ op' = "ans_map"
       /\ self' = o
       /\ cb' = f
       /\ alt' = NONE
       /\ out' = ans_map(o, Callback("f", f))
       /\ UNCHANGED <<other, ls>>

\* chapter_4.md: o.orElse(() => v)
AnsOrElse ==
  /\ op = "init"
  /\ \E o \in Options, v \in Options :
       /\ op' = "ans_orElse"
       /\ self' = o
       /\ cb' = NoCb
       /\ alt' = v
       /\ out' = ans_orElse(o, Thunk("ou", v))
       /\ UNCHANGED <<other, ls>>

\* chapter_4.md: map2(oa, ob, f)
Map2 ==
  /\ op = "init"
  /\ \E oa \in Options, ob \in Options, f \in Fns2 :
       /\ op' = "map2"
       /\ self' = oa
       /\ other' = ob
       /\ cb' = f
       /\ out' = map2(oa, ob, Callback("f", f))
       /\ UNCHANGED <<alt, ls>>

\* chapter_4.md: sequence(l), the fold of exercise 4.4
Sequence ==
  /\ op = "init"
  /\ \E l \in OptionLists :
       /\ op' = "sequence"
       /\ ls' = l
       /\ out' = sequence(l)
       /\ UNCHANGED <<self, other, cb, alt>>

\* chapter_4.md: sequence(l), by traverse
SequenceViaTraverse ==
  /\ op = "init"
  /\ \E l \in OptionLists :
       /\ op' = "sequence_via_traverse"
       /\ ls' = l
       /\ out' = sequence_via_traverse(l)
       /\ UNCHANGED <<self, other, cb, alt>>

\* chapter_4.md: traverse(l, f)
Traverse ==
  /\ op = "init"
  /\ \E l \in ValueLists, f \in OptFns :
       /\ op' = "traverse"
       /\ ls' = l
       /\ cb' = f
       /\ out' = traverse(l, Callback("f", f))
       /\ UNCHANGED <<self, other, alt>>

\* chapter_4.md: sequence(map(l, f))
SequenceMap ==
  /\ op = "init"
  /\ \E l \in ValueLists, f \in ParseFns :
       /\ op' = "sequence_map"
       /\ ls' = l
       /\ cb' = f
       /\ out' = sequence_map(l, Callback("f", f))
       /\ UNCHANGED <<self, other, alt>>

\* chapter_4.md: e.flatMap(f) on an Either
EitherFlatMap ==
  /\ op = "init"
  /\ \E e \in Eithers, f \in EitherFns :
       /\ op' = "either_flatMap"
       /\ self' = e
       /\ cb' = f
       /\ out' = either_flatMap(e, Callback("f", f))
       /\ UNCHANGED <<other, alt, ls>>

\* chapter_4.md: e.map(f) on an Either
EitherMap ==
  /\ op = "init"
  /\ \E e \in Eithers, f \in Fns :
       /\ op' = "either_map"
       /\ self' = e
       /\ cb' = f
       /\ out' = either_map(e, Callback("f", f))
       /\ UNCHANGED <<other, alt, ls>>

\* chapter_4.md: e.orElse(() => v) on an Either
EitherOrElse ==
  /\ op = "init"
  /\ \E e \in Eithers, v \in Eithers :
       /\ op' = "either_orElse"
       /\ self' = e
       /\ alt' = v
       /\ out' = either_orElse(e, Thunk("b", v))
       /\ UNCHANGED <<other, cb, ls>>

\* chapter_4.md: map2(e1, e2, f) on Eithers
EitherMap2 ==
  /\ op = "init"
  /\ \E e1 \in Eithers, e2 \in Eithers, f \in Fns2 :
       /\ op' = "either_map2"
       /\ self' = e1
       /\ other' = e2
       /\ cb' = f
       /\ out' = either_map2(e1, e2, Callback("f", f))
       /\ UNCHANGED <<alt, ls>>

\* chapter_4.md: traverse(l, f) to an Either
EitherTraverse ==
  /\ op = "init"
  /\ \E l \in ValueLists, f \in TraverseFns :
       /\ op' = "either_traverse"
       /\ ls' = l
       /\ cb' = f
       /\ out' = either_traverse(l, Callback("f", f))
       /\ UNCHANGED <<self, other, alt>>

\* chapter_4.md: sequence(l) of Eithers
EitherSequence ==
  /\ op = "init"
  /\ \E l \in EitherListsIn :
       /\ op' = "either_sequence"
       /\ ls' = l
       /\ out' = either_sequence(l)
       /\ UNCHANGED <<self, other, cb, alt>>

\* option.ts: o.map(f).map(g)
MapMap ==
  /\ op = "init"
  /\ \E o \in Options, f \in Fns, g \in Fns_g :
       /\ op' = "map_map"
       /\ self' = o
       /\ cb' = f
       /\ alt' = g
       /\ out' = LET r == map(o, Callback("f", f))
                 IN IF r.kind = "throw" THEN r
                    ELSE After(r.log, map(r.val, Callback("g", g)))
  /\ UNCHANGED <<other, ls>>

\* chapter_4.md: Try(f) for Option, f returning or throwing
TryOption ==
  /\ op = "init"
  /\ op' = "Try"
  /\ \/ \E v \in Values :
          /\ alt' = Thunk("f", v)[Unit]
          /\ out' = Try(Thunk("f", v))
     \/ \E x \in Thrown :
          /\ alt' = ThrowingThunk("f", x)[Unit]
          /\ out' = Try(ThrowingThunk("f", x))
  /\ UNCHANGED <<self, other, cb, ls>>

\* chapter_4.md: Try(f) for Either, f returning or throwing
TryEither ==
  /\ op = "init"
  /\ op' = "either_Try"
  /\ \/ \E v \in Values :
          /\ alt' = Thunk("f", v)[Unit]
          /\ out' = either_Try(Thunk("f", v))
     \/ \E x \in Thrown :
          /\ alt' = ThrowingThunk("f", x)[Unit]
          /\ out' = either_Try(ThrowingThunk("f", x))
  /\ UNCHANGED <<self, other, cb, ls>>

\* A chain of method calls starts on an option (option.ts's methods).
ChainStart ==
  /\ op = "init"
  /\ \E o \in Options :
       /\ op' = "chain"
       /\ self' = o
       /\ out' = Return(o, <<>>)
  /\ ls' = <<>>
  /\ UNCHANGED <<other, cb, alt>>

\* One more stage of the chain: .map(f), .flatMap(f) or .filter(p) on the
\* option the chain has got to.  ls holds the methods called so far; the
\* callback of stage n is logged as n.  A throw ends the chain.
ChainStage ==
  /\ op = "chain"
  /\ out.kind = "return"
  /\ Len(ls) < MaxChain
  /\ op' = op
  /\ \/ \E f \in Fns :
          /\ ls' = Append(ls, "map")
          /\ out' = After(out.log, map(out.val, Callback(Len(ls) + 1, f)))
     \/ \E f \in OptFns :
          /\ ls' = Append(ls, "flatMap")
          /\ out' = After(out.log, flatMap(out.val, Callback(Len(ls) + 1, f)))
     \/ \E p \in Preds :
          /\ ls' = Append(ls, "filter")
          /\ out' = After(out.log, filter(out.val, Callback(Len(ls) + 1, p)))
  /\ UNCHANGED <<self, other, cb, alt>>

\* A chain starts on an option (the chapter's answers).
AnsChainStart ==
  /\ op = "init"
  /\ \E o \in Options :
       /\ op' = "chain_ans"
       /\ self' = o
       /\ out' = Return(o, <<>>)
  /\ ls' = <<>>
  /\ UNCHANGED <<other, cb, alt>>

\* One more stage with the chapter's answers: map, flatMap, filter, or map2
\* with the chain's option as either argument.
AnsChainStage ==
  /\ op = "chain_ans"
  /\ out.kind = "return"
  /\ Len(ls) < MaxChain
  /\ op' = op
  /\ \/ \E f \in Fns :
          /\ ls' = Append(ls, "map")
          /\ out' = After(out.log, ans_map(out.val, Callback(Len(ls) + 1, f)))
     \/ \E f \in OptFns :
          /\ ls' = Append(ls, "flatMap")
          /\ out' = After(out.log,
                          ans_flatMap(out.val, Callback(Len(ls) + 1, f)))
     \/ \E p \in Preds :
          /\ ls' = Append(ls, "filter")
          /\ out' = After(out.log,
                          ans_filter(out.val, Callback(Len(ls) + 1, p)))
     \/ \E ob \in Options, f \in Fns2_closed :
          /\ ls' = Append(ls, "map2")
          /\ out' = After(out.log,
                          map2(out.val, ob, Callback(Len(ls) + 1, f)))
     \/ \E oa \in Options, f \in Fns2_closed :
          /\ ls' = Append(ls, "map2")
          /\ out' = After(out.log,
                          map2(oa, out.val, Callback(Len(ls) + 1, f)))
  /\ UNCHANGED <<self, other, cb, alt>>

\* A chain starts on an Either.
EitherChainStart ==
  /\ op = "init"
  /\ \E e \in Eithers :
       /\ op' = "chain_either"
       /\ self' = e
       /\ out' = Return(e, <<>>)
  /\ ls' = <<>>
  /\ UNCHANGED <<other, cb, alt>>

\* One more stage on an Either: map, flatMap, or map2 with the chain's Either
\* as the first argument.
EitherChainStage ==
  /\ op = "chain_either"
  /\ out.kind = "return"
  /\ Len(ls) < MaxChain
  /\ op' = op
  /\ \/ \E f \in Fns :
          /\ ls' = Append(ls, "map")
          /\ out' = After(out.log,
                          either_map(out.val, Callback(Len(ls) + 1, f)))
     \/ \E f \in EitherFns :
          /\ ls' = Append(ls, "flatMap")
          /\ out' = After(out.log,
                          either_flatMap(out.val, Callback(Len(ls) + 1, f)))
     \/ \E e2 \in Eithers, f \in Fns2_closed :
          /\ ls' = Append(ls, "map2")
          /\ out' = After(out.log,
                          either_map2(out.val, e2, Callback(Len(ls) + 1, f)))
  /\ UNCHANGED <<self, other, cb, alt>>

\* RNG.ts: new SimpleRNG(sa) and new SimpleRNG(sb), two generators to be
\* stepped side by side.  cb keeps them as made; ls and alt are the numbers
\* each has returned so far.
RngNew ==
  /\ op = "init"
  /\ \E sa \in Seeds, sb \in Seeds :
       /\ op' = "rng"
       /\ self' = SimpleRNG(sa)
       /\ other' = SimpleRNG(sb)
       /\ cb' = <<SimpleRNG(sa), SimpleRNG(sb)>>
       /\ out' = [before |-> SimpleRNG(sa), val |-> <<>>,
                  this |-> SimpleRNG(sa)]
  /\ ls' = <<>>
  /\ alt' = <<>>

\* RNG.ts: [n, next] = self.nextInt(); the caller goes on with next.  out
\* holds the receiver before the call, the pair returned, and the receiver
\* after the call.
NextInt ==
  /\ op = "rng"
  /\ Len(ls) < MaxCalls
  /\ LET r == nextInt(self)
     IN /\ out' = [before |-> self, val |-> r.val, this |-> r.this]
        /\ ls' = Append(ls, r.val[1])
        /\ self' = r.val[2]
  /\ UNCHANGED <<op, other, cb, alt>>

\* RNG.ts: the same on the second generator.
NextIntOther ==
  /\ op = "rng"
  /\ Len(alt) < MaxCalls
  /\ LET r == nextInt(other)
     IN /\ out' = [before |-> other, val |-> r.val, this |-> r.this]
        /\ alt' = Append(alt, r.val[1])
        /\ other' = r.val[2]
  /\ UNCHANGED <<op, self, cb, ls>>

\* The call has returned; the next one starts from scratch.
Done ==
  /\ op # "init"
  /\ op' = "init"
  /\ self' = NONE
  /\ other' = NONE
  /\ cb' = NoCb
  /\ alt' = NONE
  /\ ls' = Nil
  /\ out' = Return(NONE, <<>>)

Next ==
  \/ Filter
  \/ FlatMap
  \/ GetOrElse
  \/ Map
  \/ OrElse
  \/ AnsFilter
  \/ AnsFlatMap
  \/ AnsGetOrElse
  \/ AnsMap
  \/ AnsOrElse
  \/ Map2
  \/ Sequence
  \/ SequenceViaTraverse
  \/ Traverse
  \/ SequenceMap
  \/ EitherFlatMap
  \/ EitherMap
  \/ EitherOrElse
  \/ EitherMap2
  \/ EitherTraverse
  \/ EitherSequence
  \/ ChainStart
  \/ ChainStage
  \/ AnsChainStart
  \/ AnsChainStage
  \/ EitherChainStart
  \/ EitherChainStage
  \/ RngNew
  \/ NextInt
  \/ NextIntOther
  \/ MapMap
  \/ TryOption
  \/ TryEither
  \/ Done

Spec == Init /\ [][Next]_vars

----------------------------------------------------------------------------
\* The properties.

\* C1: Some(a).map(f) returns Some(f(a)) after invoking f exactly once, and
\* None.map(f) returns None without invoking f, in option.ts and in the
\* chapter's answer alike.
C1_MapLaw ==
  op \in {"map", "ans_map"} =>
    out = IF self.tag = "some"
          THEN Return(Some(cb[self.value]), <<"f">>)
          ELSE Return(None, <<>>)

\* C1 witness: option.ts map on a Some whose value f changes.
C1_Witness ==
  /\ op = "map"
  /\ self.tag = "some"
  /\ cb[self.value] # self.value
  /\ out.val = Some(cb[self.value])
  /\ out.log = <<"f">>

\* C2: getOrElse on Some(a) returns a and never invokes the thunk; on None it
\* returns the thunk's value and invokes the thunk exactly once.
C2_GetOrElseLazy ==
  op \in {"getOrElse", "ans_getOrElse"} =>
    out = IF self.tag = "some"
          THEN Return(self.value, <<>>)
          ELSE Return(alt, <<"onEmpty">>)

\* C2 witness: option.ts getOrElse on a Some, given a thunk that would have
\* returned something else, and the thunk did not run.
C2_Witness ==
  /\ op = "getOrElse"
  /\ self.tag = "some"
  /\ alt # self.value
  /\ out.val = self.value
  /\ out.log = <<>>

OptionOps ==
  {"filter", "flatMap", "getOrElse", "map", "orElse"}

\* C3: every combinator of option.ts's OptionBase returns normally.
C3_Total ==
  op \in OptionOps => out.kind = "return"

\* C4: flatMap on Some(a) returns f(a), invoking f once; on None it returns
\* None without invoking f.
C4_FlatMapLaw ==
  op \in {"flatMap", "ans_flatMap"} =>
    out = IF self.tag = "some"
          THEN Return(cb[self.value], <<"f">>)
          ELSE Return(None, <<>>)

\* C5: filter keeps Some(a) when p(a) holds, turns it into None when p(a)
\* fails, and keeps None.
C5_FilterLaw ==
  op \in {"filter", "ans_filter"} =>
    /\ out.kind = "return"
    /\ out.val = IF self.tag = "some" /\ cb[self.value] THEN self ELSE None

\* C6: orElse on Some(a) returns Some(a) without evaluating the alternative;
\* on None it evaluates the alternative once and returns its value.
C6_OrElseLaw ==
  op \in {"orElse", "ans_orElse"} =>
    out = IF self.tag = "some"
          THEN Return(self, <<>>)
          ELSE Return(alt, <<"ou">>)

\* C7: map2(oa, ob, f) returns Some(f(a, b)) when oa = Some(a) and
\* ob = Some(b), and None when either is None.
C7_Map2Law ==
  op = "map2" =>
    /\ out.kind = "return"
    /\ out.val = IF self.tag = "some" /\ other.tag = "some"
                 THEN Some(cb[<<self.value, other.value>>])
                 ELSE None

\* C7 witness: both inputs present, f not symmetric in them.
C7_Witness ==
  /\ op = "map2"
  /\ self.tag = "some"
  /\ other.tag = "some"
  /\ cb[<<self.value, other.value>>] # cb[<<other.value, self.value>>]
  /\ out.val = Some(cb[<<self.value, other.value>>])

\* Every element of l is a Some.
AllSome(l) == \A i \in DOMAIN l : l[i].tag = "some"

\* The values the elements of l hold, in the order of l.
Unwrapped(l) == [i \in DOMAIN l |-> l[i].value]

\* C8: sequence of a non-empty list is Some of the contained values in the
\* original order when every element is a Some, and None otherwise; for the
\* fold of exercise 4.4 and for sequence by traverse alike.
C8_SequenceLaw ==
  (op \in {"sequence", "sequence_via_traverse"} /\ ls # Nil) =>
    /\ out.kind = "return"
    /\ out.val = IF AllSome(ls) THEN Some(Unwrapped(ls)) ELSE None

\* C8 witness: a list of several distinct Somes, sequenced in order.
C8_Witness ==
  /\ op = "sequence"
  /\ Len(ls) >= 2
  /\ AllSome(ls)
  /\ ls[1] # ls[2]
  /\ out.val = Some(Unwrapped(ls))

\* The elements of l transformed by f, in the order of l.
Mapped(l, f) == [i \in DOMAIN l |-> f[l[i]]]

C11_TraverseIsSequenceOfMap ==
  /\ op = "traverse" => out = sequence_map(ls, Callback("f", cb))
  /\ op = "sequence_map" => out = traverse(ls, Callback("f", cb))
  /\ op = "sequence" => out = sequence_via_traverse(ls)
  /\ op = "sequence_via_traverse" => out = sequence(ls)

\* C11 witness: traverse of several distinct elements gave a Some, the one
\* sequence(map(xs, f)) gives.
C11_Witness ==
  /\ op = "traverse"
  /\ Len(ls) >= 2
  /\ ls[1] # ls[2]
  /\ cb[ls[1]] # cb[ls[2]]
  /\ out.val.tag = "some"
  /\ out = sequence_map(ls, Callback("f", cb))

\* A stage of the chain has yielded None or a Left.
Failed ==
  /\ Len(ls) >= 1
  /\ out.kind = "return"
  /\ out.val.tag \in {"none", "left"}

\* C12: in a chain of Option or Either method calls, once a stage has yielded
\* None or a Left, every later stage yields that same None or Left and
\* invokes no callback, so the chain ends with it.
C12_ShortCircuit ==
  [][(op \in {"chain", "chain_ans", "chain_either"} /\ op' = op /\ Failed)
       => out' = out]_vars

\* The same for the chains of the chapter's answers and of Either's methods.
C12_AnswersShortCircuit ==
  [][(op \in {"chain_ans", "chain_either"} /\ op' = op /\ Failed)
       => out' = out]_vars

\* The same for option.ts's map, the one stage option.ts implements.
C12_MapShortCircuit ==
  [][(op = "chain" /\ op' = op /\ Failed /\ ls' = Append(ls, "map"))
       => out' = out]_vars

\* C13: on a Right, map returns Right(f(a)) and flatMap returns f(a), f
\* invoked once; on a Left both return a Left of the same payload and do not
\* invoke f.
C13_RightBiased ==
  /\ op = "either_map" =>
       out = IF self.tag = "right"
             THEN Return(Right(cb[self.value]), <<"f">>)
             ELSE Return(Left(self.value), <<>>)
  /\ op = "either_flatMap" =>
       out = IF self.tag = "right"
             THEN Return(cb[self.value], <<"f">>)
             ELSE Return(Left(self.value), <<>>)

\* C13 witness: map on a Right whose value f changes.
C13_Witness ==
  /\ op = "either_map"
  /\ self.tag = "right"
  /\ cb[self.value] # self.value
  /\ out.val = Right(cb[self.value])
  /\ out.log = <<"f">>

\* C14: orElse on a Right returns the receiver without evaluating the
\* alternative; on a Left it evaluates the alternative once and returns its
\* value, whatever the Left held.
C14_EitherOrElse ==
  op = "either_orElse" =>
    out = IF self.tag = "right"
          THEN Return(self, <<>>)
          ELSE Return(alt, <<"b">>)

\* C14 witness: orElse on a Left returned the alternative, another Left.
C14_Witness ==
  /\ op = "either_orElse"
  /\ self.tag = "left"
  /\ alt.tag = "left"
  /\ alt # self
  /\ out = Return(alt, <<"b">>)

\* C15: map2 returns the first argument if it is a Left, else the second if it
\* is a Left, else Right(f(a, b)); f is invoked only in the last case.
C15_EitherMap2 ==
  op = "either_map2" =>
    out = IF self.tag = "left" THEN Return(self, <<>>)
          ELSE IF other.tag = "left" THEN Return(other, <<>>)
          ELSE Return(Right(cb[<<self.value, other.value>>]), <<"f">>)

\* C15 witness: two Lefts of different payloads, and the first came back.
C15_Witness ==
  /\ op = "either_map2"
  /\ self.tag = "left"
  /\ other.tag = "left"
  /\ self # other
  /\ out.val = self

\* The Eithers an Either traverse or sequence goes through, in list order.
Steps == IF op = "either_traverse" THEN Mapped(ls, cb) ELSE ls

\* The index of the first Left of l.
FirstLeft(l) ==
  CHOOSE i \in DOMAIN l :
    l[i].tag = "left" /\ \A j \in 1..(i - 1) : l[j].tag = "right"

\* C16: Either traverse and sequence return the Left of smallest index if
\* there is one, and otherwise Right of all the values in the original order.
C16_LeftmostLeft ==
  op \in {"either_traverse", "either_sequence"} =>
    /\ out.kind = "return"
    /\ IF \E i \in DOMAIN Steps : Steps[i].tag = "left"
       THEN /\ out.val.tag = "left"
            /\ out.val.value = Steps[FirstLeft(Steps)].value
       ELSE /\ out.val.tag = "right"
            /\ out.val.value = Unwrapped(Steps)

\* C16 witness: a Right, then two Lefts of different payloads, and the first
\* of the two came back.
C16_Witness ==
  /\ op = "either_traverse"
  /\ Len(ls) = 3
  /\ cb[ls[1]].tag = "right"
  /\ cb[ls[2]].tag = "left"
  /\ cb[ls[3]].tag = "left"
  /\ cb[ls[2]] # cb[ls[3]]
  /\ out.val = cb[ls[2]]

compose(f, g) ==
  [x \in DOMAIN f |->
     LET r == f[x] IN IF r.kind = "throw" THEN r ELSE After(r.log, g[r.val])]

\* C19: o.map(f).map(g) is o.map(x => g(f(x))) for a Some and for None: the
\* same option, after the same callbacks; on Some(a) it is Some(g(f(a))).
C19_MapComposition ==
  op = "map_map" =>
    /\ out = map(self, compose(Callback("f", cb), Callback("g", alt)))
    /\ self.tag = "some" => out.val = Some(alt[cb[self.value]])
    /\ self.tag = "none" => out.val = None

\* C19 witness: two maps on a Some, where f and g both change the value and
\* f's result is 0.
C19_Witness ==
  /\ op = "map_map"
  /\ self.tag = "some"
  /\ cb[self.value] = 0
  /\ cb[self.value] # self.value
  /\ alt[cb[self.value]] # cb[self.value]
  /\ out = Return(Some(alt[cb[self.value]]), <<"f", "g">>)

\* C20: Either traverse and sequence of the empty list return Right of the
\* empty list, invoking nothing.
C20_EitherEmptyIsRight ==
  (op \in {"either_traverse", "either_sequence"} /\ ls = Nil) =>
    /\ out.kind = "return"
    /\ out.log = <<>>
    /\ out.val.tag = "right"
    /\ out.val.value = Nil

\* C20 witness: traverse of the empty list has returned a Right.
C20_Witness ==
  /\ op = "either_traverse"
  /\ ls = Nil
  /\ out.val.tag = "right"

\* The number n as an integer, for n within 32 bits.
NumberValue(n) == n.hi * 16777216 + n.lo

RECURSIVE Scale48(_, _, _, _)
Scale48(m, d, k, carry) ==
  IF k > 6 THEN <<>>
  ELSE <<(m[k] * d + carry) % 256>>
         \o Scale48(m, d, k + 1, (m[k] * d + carry) \div 256)

RECURSIVE Add48(_, _, _, _)
Add48(x, y, k, carry) ==
  IF k > 6 THEN <<>>
  ELSE <<(x[k] + y[k] + carry) % 256>>
         \o Add48(x, y, k + 1, (x[k] + y[k] + carry) \div 256)

RECURSIVE Times48(_, _, _)
\* (x[i] + 256 * x[i + 1] + ...) * m modulo 2^48
Times48(x, m, i) ==
  IF i > 6 THEN <<0, 0, 0, 0, 0, 0>>
  ELSE Add48(Scale48(m, x[i], 1, 0),
             <<0>> \o SubSeq(Times48(x, m, i + 1), 1, 5), 1, 0)

\* (seed * 0x5DEECE66D + 0xB) mod 2^48; the low six bytes of a seed are the
\* seed modulo 2^48, for a negative seed too.
Lcg48(seed) ==
  Add48(Times48(seed, <<109, 230, 236, 222, 5, 0>>, 1),
        <<11, 0, 0, 0, 0, 0>>, 1, 0)

\* C22: after a call of nextInt on a generator with any 64-bit seed, negative
\* ones included, the new generator's seed is (seed * 0x5DEECE66D + 0xB) mod
\* 2^48 and so within 0 .. 2^48 - 1, and the number returned is bits 16..47
\* of the new seed read as a signed 32-bit integer, within -2^31 .. 2^31 - 1.
C22_SeedAndNumberRange ==
  (op = "rng" /\ Len(out.val) = 2) =>
    LET n == out.val[1]
        seed == out.val[2].seed
    IN /\ \A k \in 1..6 : seed[k] = Lcg48(out.before.seed)[k]
       /\ \A k \in 7..BigBytes : seed[k] = 0
       /\ n.lo = seed[3] + 256 * seed[4] + 65536 * seed[5]
       /\ n.hi = IF seed[6] >= 128 THEN seed[6] - 256 ELSE seed[6]
       /\ n.lo \in 0..16777215
       /\ n.hi \in -128..127

\* C22 witness: the generator made with seed -1 returns -384749 and a
\* generator whose seed is 0xFFFA2113199E, and the next call on that one
\* returns a number again.
C22_Witness ==
  /\ op = "rng"
  /\ cb[1].seed = BigSigned(<<255>>)
  /\ Len(ls) = 2
  /\ NumberValue(ls[1]) = -384749
  /\ out.before.seed = Big(<<158, 25, 19, 33, 250, 255>>)
  /\ out.val[2].seed = self.seed
  /\ self.seed[7] = 0

====
